---- MODULE Spec2Model ----
(***************************************************************************)
(* The staged-file queue, the sequential transcription run and the batch   *)
(* crop replay of the timesheet transcriber (src/App.tsx), as a state      *)
(* machine.  One action is one uninterrupted piece of a handler: a handler *)
(* runs from the event that starts it to its first await, and each         *)
(* continuation runs from the settlement of the awaited promise to the     *)
(* next await or to the end of the handler.  React state setters issued in *)
(* one such piece are applied together, and the cleanup of the             *)
(* [stagedFiles] effect is part of every piece that assigns stagedFiles.   *)
(***************************************************************************)
EXTENDS Integers, Sequences, FiniteSets, TLC

\* ---------------------------------------------------------------- bounds
MaxFiles == 2      \* staged files ever created (ids drawn)
MaxUrls == 3       \* preview handles ever created

\* ------------------------------------------------------------ value sets
NULL == "null"                 \* JavaScript null
UNDEF == "undefined"           \* JavaScript undefined
NoFile == [null |-> TRUE]      \* null where a StagedFile is expected
NoCrop == [null |-> TRUE]      \* null where a saved crop is expected
NoName == <<>>                 \* null where a file name is expected
NoText == <<>>                 \* no text is under a text function
NotApplied == [applied |-> FALSE]

\* File names are opaque tokens: the name of a selected file, and the name
\* `colado-${Date.now()}.png` of a pasted image, are drawn from Names.  A name
\* is the list of the parts its stem is made of (the extension is left out).
Names == {<<"a">>}

Crops == {"c90"}               \* the crop box held by the editor
Rotations == {90}                \* the rotation held by the editor

ErrNoFiles == "Por favor, selecione ao menos um arquivo de imagem."
ErrNoApiKey == "Por favor, configure sua chave de API do Gemini"
ErrNoClipboardImage == "Nenhuma imagem encontrada"
ErrBatchCrop == "Ocorreu um erro ao aplicar o recorte em lote."
ErrUnknown == "Ocorreu um erro desconhecido."

\* What a rejected await hands to the catch clause: an Error with a message,
\* an Error whose message is the empty string, or a value that is no Error.
TypeError == [isError |-> TRUE, message |-> "boom"]
Thrown == {TypeError,
           [isError |-> TRUE, message |-> ""],
           [isError |-> FALSE, message |-> "x"]}

\* A text is the list of its characters; a word without a pipe, a dash or
\* white space in it, the code fence (three backquotes) and the word markdown are one item each.
FENCE == "fence"               \* three backquotes
MD == "markdown"
NL == "\n"

\* What transcribeImage resolves with: a table in a fenced block.
Responses ==
    {<<FENCE, MD, NL, "|", " ", "A", " ", "|", " ", "B", " ", "|", NL,
       "|", "-", "-", "-", "|", "-", "-", "-", "|", NL,
       "|", " ", "1", " ", "|", " ", "2", " ", "|", NL, FENCE>>}
ApiKeys == {"", "key"}        \* what localStorage holds for gemini_api_key

\* ------------------------------------------------------------- variables
VARIABLES
    stagedFiles,        \* useState<StagedFile[]>
    transcriptions,     \* useState<TranscriptionResult[]>
    processingStatus,   \* useState<ProcessingStatus>
    error,              \* useState<string | null>
    persistedApiKey,    \* useLocalStorage('gemini_api_key')
    settingsOpen,       \* useState(false)
    currentFileToEdit,  \* useState<StagedFile | null>
    savedCrop,          \* useState<{crop, rotation, sourceId} | null>
    isBatchCropping,    \* useState(false)
    released,           \* per object URL, how often revokeObjectURL hit it
    nextUrl,            \* next object URL URL.createObjectURL hands out
    nextSalt,           \* next value of Math.random() in an id
    run,                \* the in-flight handleTranscribe call
    batch,              \* the in-flight handleApplyCropToAll call
    single,             \* the in-flight handleApplySavedCropToOne calls
    currentPdfFile,     \* useState<File | null>, with isPdfModalOpen
    arg,                \* the text a text function is applied to
    ret                 \* what the function returned

appVars == <<stagedFiles, transcriptions, processingStatus, error,
             persistedApiKey, settingsOpen, currentFileToEdit, savedCrop,
             isBatchCropping, released, nextUrl, nextSalt, run, batch, single,
             currentPdfFile>>

vars == <<stagedFiles, transcriptions, processingStatus, error, persistedApiKey,
          settingsOpen, currentFileToEdit, savedCrop, isBatchCropping, released,
          nextUrl, nextSalt, run, batch, single, currentPdfFile, arg, ret>>

\* ------------------------------------------------------------ JavaScript
\* Truthiness of a string | null | undefined value.
Truthy(v) == v # NULL /\ v # UNDEF /\ v # ""

Range(s) == {s[i] : i \in DOMAIN s}

SeqMap(Op(_), s) == [i \in DOMAIN s |-> Op(s[i])]

RECURSIVE SeqFilter(_, _)
SeqFilter(Keep(_), s) ==
    IF s = <<>> THEN <<>>
    ELSE IF Keep(Head(s)) THEN <<Head(s)>> \o SeqFilter(Keep, Tail(s))
    ELSE SeqFilter(Keep, Tail(s))

IdOf(x) == x.id
Ids(s) == SeqMap(IdOf, s)

\* ------------------------------------------------------------ object URLs
\* URL.revokeObjectURL on every URL of `urls` (a sequence: a URL listed twice
\* is revoked twice).  released[u] counts the calls on u as 0, 1 or 2 (twice
\* or more).
RECURSIVE RevokeSeq(_, _)
RevokeSeq(rel, urls) ==
    IF urls = <<>> THEN rel
    ELSE RevokeSeq([rel EXCEPT ![Head(urls)] =
                        IF @ = 0 THEN 1 ELSE 2], Tail(urls))

PreviewUrlOf(sf) == sf.previewUrl
PreviewUrls(files) == SeqMap(PreviewUrlOf, files)

\* The cleanup of the effect on [stagedFiles]: it runs whenever stagedFiles is
\* assigned a new array, over the array of the render before.
EffectCleanupNone(rel, old) == rel
EffectCleanup(rel, old) == RevokeSeq(rel, PreviewUrls(old))

\* ----------------------------------------------------------------- files
NewFile(stem) == [stem |-> stem, data |-> "raw"]
EditedFile(f) == [stem |-> Append(f.stem, "edited"), data |-> "edited"]
CroppedFile(f) == [stem |-> Append(f.stem, "cropped"), data |-> "cropped"]
NewPdf(stem) == [stem |-> stem, data |-> "pdf"]

\* `${pdfFile.name.replace('.pdf', '')}-page-${pageNumber}.png`
PageTokens == <<"page-1", "page-2", "page-3", "page-4">>
PageFile(pdf, pageNumber) ==
    [stem |-> Append(pdf.stem, PageTokens[pageNumber]), data |-> "raw"]

\* `${file.name}-${file.lastModified}-${Math.random()}`: the name stands for
\* the name and the modification time of the file, and the salt for the value
\* of Math.random(), taken never to return the same value twice.
StagedIdOfNameOnly(file, salt) == [name |-> file.stem, salt |-> 0]
StagedId(file, salt) == [name |-> file.stem, salt |-> salt]


\* --------------------------------------------------------- initial state
IdleRun == [pc |-> "idle", files |-> <<>>, idx |-> 0, submitted |-> <<>>,
            inFlight |-> 0]
IdleBatch == [pc |-> "idle", files |-> <<>>, crop |-> NoCrop, tasks |-> <<>>,
              updates |-> <<>>]

AppInit ==
    /\ stagedFiles = <<>>
    /\ transcriptions = <<>>
    /\ processingStatus = [isProcessing |-> FALSE, total |-> 0, completed |-> 0,
                           currentFileName |-> NoName]
    /\ error = NULL
    /\ persistedApiKey \in ApiKeys
    /\ settingsOpen = FALSE
    /\ currentFileToEdit = NoFile
    /\ savedCrop = NoCrop
    /\ isBatchCropping = FALSE
    /\ released = [u \in {} |-> 0]
    /\ nextUrl = 1
    /\ nextSalt = 1
    /\ run = IdleRun
    /\ batch = IdleBatch
    /\ single = {}
    /\ currentPdfFile = NoFile

Init ==
    /\ AppInit
    /\ arg = NoText
    /\ ret = NotApplied

\* URL.createObjectURL: the URL becomes a key of `released`, not yet revoked.
CreateUrls(rel, first, k) == [u \in DOMAIN rel \cup (first .. first + k - 1) |->
                                 IF u \in DOMAIN rel THEN rel[u] ELSE 0]

\* ------------------------------------------------------ staging of files
\* The k image files of one selection, staged in input order.
NewStaged(stem, k, salt, url) ==
    [i \in 1 .. k |-> [id |-> StagedId(NewFile(stem), salt + i - 1),
                       file |-> NewFile(stem),
                       previewUrl |-> url + i - 1]]

\* What staging does to the result list (setTranscriptions([])).
ResultsAfterStagingKept(old) == old
ResultsAfterStaging(old) == <<>>

\* k image files are in the selection, and a PDF is or is not.
handleFileChange(stem, k, pdf) ==
    /\ nextSalt + k - 1 <= MaxFiles
    /\ nextUrl + k - 1 <= MaxUrls
    /\ currentPdfFile' = IF pdf THEN NewPdf(stem) ELSE currentPdfFile
    /\ IF k > 0
       THEN /\ stagedFiles' = stagedFiles \o NewStaged(stem, k, nextSalt, nextUrl)
            /\ released' = EffectCleanup(CreateUrls(released, nextUrl, k), stagedFiles)
       ELSE UNCHANGED <<stagedFiles, released>>
    /\ nextSalt' = nextSalt + k
    /\ nextUrl' = nextUrl + k
    /\ transcriptions' = ResultsAfterStaging(transcriptions)
    /\ error' = NULL
    /\ UNCHANGED <<processingStatus, persistedApiKey, settingsOpen,
                   currentFileToEdit, savedCrop, isBatchCropping, run, batch,
                   single, arg, ret>>

\* outcome: "image" (the clipboard holds an image item) or "none"
handlePasteFromClipboard(stem, outcome) ==
    /\ IF outcome = "image"
       THEN /\ nextSalt <= MaxFiles
            /\ nextUrl <= MaxUrls
            /\ stagedFiles' = stagedFiles \o NewStaged(stem, 1, nextSalt, nextUrl)
            /\ released' = EffectCleanup(CreateUrls(released, nextUrl, 1), stagedFiles)
            /\ nextSalt' = nextSalt + 1
            /\ nextUrl' = nextUrl + 1
            /\ transcriptions' = ResultsAfterStaging(transcriptions)
            /\ error' = NULL
       ELSE /\ error' = ErrNoClipboardImage
            /\ UNCHANGED <<stagedFiles, released, nextSalt, nextUrl, transcriptions>>
    /\ UNCHANGED <<processingStatus, persistedApiKey, settingsOpen,
                   currentFileToEdit, savedCrop, isBatchCropping, run, batch,
                   single, currentPdfFile, arg, ret>>

\* The button of a queue row: idToRemove is the id of a rendered entry.
handleRemoveFile(idToRemove) ==
    /\ \E i \in DOMAIN stagedFiles : stagedFiles[i].id = idToRemove
    /\ LET hit == SeqFilter(LAMBDA sf : sf.id = idToRemove, stagedFiles)
           kept == SeqFilter(LAMBDA sf : sf.id # idToRemove, stagedFiles)
       IN /\ stagedFiles' = kept
          /\ released' = EffectCleanup(RevokeSeq(released, <<hit[1].previewUrl>>),
                                       stagedFiles)
    /\ UNCHANGED <<transcriptions, processingStatus, error, persistedApiKey,
                   settingsOpen, currentFileToEdit, savedCrop, isBatchCropping,
                   nextUrl, nextSalt, run, batch,
                   single, currentPdfFile, arg, ret>>

\* ------------------------------------------------------------- PDF pages
\* The modal's Confirmar button with pages 1..n selected (at least one): the
\* page images are staged in the order of the selection.
handlePdfPagesSelected(n) ==
    /\ currentPdfFile # NoFile
    /\ n >= 1
    /\ nextSalt + n - 1 <= MaxFiles
    /\ nextUrl + n - 1 <= MaxUrls
    /\ stagedFiles' = stagedFiles \o
          [i \in 1 .. n |->
              [id |-> StagedId(PageFile(currentPdfFile, i), nextSalt + i - 1),
               file |-> PageFile(currentPdfFile, i),
               previewUrl |-> nextUrl + i - 1]]
    /\ released' = EffectCleanup(CreateUrls(released, nextUrl, n), stagedFiles)
    /\ nextSalt' = nextSalt + n
    /\ nextUrl' = nextUrl + n
    /\ currentPdfFile' = NoFile
    /\ UNCHANGED <<transcriptions, processingStatus, error, persistedApiKey,
                   settingsOpen, currentFileToEdit, savedCrop, isBatchCropping,
                   run, batch, single, arg, ret>>

handleClosePdfModal ==
    /\ currentPdfFile # NoFile
    /\ currentPdfFile' = NoFile
    /\ UNCHANGED <<stagedFiles, transcriptions, processingStatus, error,
                   persistedApiKey, settingsOpen, currentFileToEdit, savedCrop,
                   isBatchCropping, released, nextUrl, nextSalt, run, batch,
                   single, arg, ret>>

\* ---------------------------------------------------------------- editor
handleOpenEditor(fileId) ==
    /\ \E i \in DOMAIN stagedFiles :
          /\ stagedFiles[i].id = fileId
          /\ currentFileToEdit' = stagedFiles[i]
    /\ UNCHANGED <<stagedFiles, transcriptions, processingStatus, error,
                   persistedApiKey, settingsOpen, savedCrop, isBatchCropping,
                   released, nextUrl, nextSalt, run, batch,
                   single, currentPdfFile, arg, ret>>

handleCloseEditor ==
    /\ currentFileToEdit # NoFile
    /\ currentFileToEdit' = NoFile
    /\ UNCHANGED <<stagedFiles, transcriptions, processingStatus, error,
                   persistedApiKey, settingsOpen, savedCrop, isBatchCropping,
                   released, nextUrl, nextSalt, run, batch,
                   single, currentPdfFile, arg, ret>>

\* ImageEditorModal.handleConfirm calls onConfirm(editedFile): the arguments
\* handleImageEdited(editedFile, crop, rotation) receives from the editor's
\* crop box and rotation.
ConfirmArgs(editedFile, crop, rotation) ==
    [editedFile |-> editedFile, crop |-> UNDEF, rotation |-> UNDEF]

handleImageEdited(args) ==
    /\ currentFileToEdit # NoFile
    /\ savedCrop' = [crop |-> args.crop, rotation |-> args.rotation,
                     sourceId |-> currentFileToEdit.id]
    /\ LET inQueue == \E i \in DOMAIN stagedFiles :
                          stagedFiles[i].id = currentFileToEdit.id
           old == SeqFilter(LAMBDA sf : sf.id = currentFileToEdit.id, stagedFiles)
       IN IF inQueue
          THEN /\ nextUrl <= MaxUrls
               /\ stagedFiles' = [i \in DOMAIN stagedFiles |->
                     IF stagedFiles[i].id = currentFileToEdit.id
                     THEN [stagedFiles[i] EXCEPT !.file = args.editedFile,
                                                 !.previewUrl = nextUrl]
                     ELSE stagedFiles[i]]
               /\ released' = EffectCleanup(
                     RevokeSeq(CreateUrls(released, nextUrl, 1), <<old[1].previewUrl>>),
                     stagedFiles)
               /\ nextUrl' = nextUrl + 1
          ELSE /\ stagedFiles' = stagedFiles
               /\ released' = EffectCleanup(released, stagedFiles)
               /\ nextUrl' = nextUrl
    /\ currentFileToEdit' = NoFile
    /\ UNCHANGED <<transcriptions, processingStatus, error, persistedApiKey,
                   settingsOpen, isBatchCropping, nextSalt, run, batch,
                   single, currentPdfFile, arg, ret>>

\* The editor's Confirmar button: getCroppedImg resolves with a blob (ok) or
\* rejects, which the modal only logs.
EditorConfirm(crop, rotation, ok) ==
    /\ currentFileToEdit # NoFile
    /\ IF ok
       THEN handleImageEdited(ConfirmArgs(EditedFile(currentFileToEdit.file),
                                          crop, rotation))
       ELSE UNCHANGED vars

\* The "Limpar" button, rendered with the saved-crop banner.
ClearSavedCrop ==
    /\ savedCrop # NoCrop
    /\ Len(stagedFiles) > 1
    /\ savedCrop' = NoCrop
    /\ UNCHANGED <<stagedFiles, transcriptions, processingStatus, error,
                   persistedApiKey, settingsOpen, currentFileToEdit,
                   isBatchCropping, released, nextUrl, nextSalt, run, batch,
                   single, currentPdfFile, arg, ret>>


\* ------------------------------------------------------------- file names
\* file.name of a staged file: the stem parts joined, with its extension.
FileName(f) == f.stem

\* --------------------------------------------------- transcription: start
\* The disabled attribute of the "Transcrever" button.
TranscribeDisabledNoRunCheck ==
    Len(stagedFiles) = 0 \/ isBatchCropping
TranscribeDisabled ==
    Len(stagedFiles) = 0 \/ processingStatus.isProcessing \/ isBatchCropping

\* The two precondition checks of handleTranscribe: which one fails, if any.
PreconditionSkipKey(files, apiKey) ==
    IF Len(files) = 0 THEN "empty" ELSE "ok"
Precondition(files, apiKey) ==
    IF Len(files) = 0 THEN "empty"
    ELSE IF ~Truthy(apiKey) THEN "nokey"
    ELSE "ok"

\* handleTranscribe from the click to the first await (the FileReader of the
\* first file has been started).
handleTranscribe ==
    /\ ~TranscribeDisabled
    /\ LET pre == Precondition(stagedFiles, persistedApiKey)
       IN IF pre = "empty"
          THEN /\ error' = ErrNoFiles
               /\ UNCHANGED <<settingsOpen, processingStatus, transcriptions, run>>
          ELSE IF pre = "nokey"
          THEN /\ error' = ErrNoApiKey
               /\ settingsOpen' = TRUE
               /\ UNCHANGED <<processingStatus, transcriptions, run>>
          ELSE /\ processingStatus' =
                     [isProcessing |-> TRUE, total |-> Len(stagedFiles),
                      completed |-> 0,
                      currentFileName |-> FileName(stagedFiles[1].file)]
               /\ error' = NULL
               /\ transcriptions' = <<>>
               /\ run' = [pc |-> "encoding", files |-> stagedFiles, idx |-> 1,
                          submitted |-> <<>>, inFlight |-> run.inFlight + 1]
               /\ UNCHANGED settingsOpen
    /\ UNCHANGED <<stagedFiles, persistedApiKey, currentFileToEdit, savedCrop,
                   isBatchCropping, released, nextUrl, nextSalt, batch,
                   single, currentPdfFile, arg, ret>>

\* ------------------------------------------------------------------ text
IsSpace(c) == c \in {" ", NL}

RECURSIVE TrimStart(_)
TrimStart(s) ==
    IF s # <<>> /\ IsSpace(Head(s)) THEN TrimStart(Tail(s)) ELSE s

RECURSIVE TrimEnd(_)
TrimEnd(s) ==
    IF s # <<>> /\ IsSpace(s[Len(s)]) THEN TrimEnd(SubSeq(s, 1, Len(s) - 1)) ELSE s

\* String.prototype.trim
Trim(s) == TrimEnd(TrimStart(s))

\* String.prototype.split(sep) for a separator of one character
RECURSIVE Split(_, _)
Split(s, sep) ==
    IF \A i \in DOMAIN s : s[i] # sep THEN <<s>>
    ELSE LET p == CHOOSE i \in DOMAIN s :
                      s[i] = sep /\ \A j \in 1 .. i - 1 : s[j] # sep
         IN <<SubSeq(s, 1, p - 1)>> \o Split(SubSeq(s, p + 1, Len(s)), sep)

Includes(s, c) == \E i \in DOMAIN s : s[i] = c

\* The first alternative of /^(FENCE(?:markdown)?\s*)|(\s*FENCE)$/g: how many
\* items it matches at the start of the text (0: no match; ^ is the start of
\* the whole text, there is no m flag).
OpeningFenceEnd(s) ==
    IF s # <<>> /\ s[1] = FENCE
    THEN LET word == IF Len(s) >= 2 /\ s[2] = MD THEN 2 ELSE 1
         IN Len(s) - Len(TrimStart(SubSeq(s, word + 1, Len(s))))
    ELSE 0

\* The second alternative, on what follows the first match: a fence at the
\* very end of the text ($ is the end of the whole text), with the white space
\* before it.
WithoutClosingFence(r) ==
    IF r # <<>> /\ r[Len(r)] = FENCE THEN TrimEnd(SubSeq(r, 1, Len(r) - 1)) ELSE r

\* result.replace(/^(FENCE(?:markdown)?\s*)|(\s*FENCE)$/g, '').trim()
CleanMarkdown(result) ==
    Trim(WithoutClosingFence(SubSeq(result, OpeningFenceEnd(result) + 1, Len(result))))

\* ------------------------------------------------ transcription: per file
\* const errorMessage = e instanceof Error ? e.message : '...desconhecido.'
ErrorMessage(e) == IF e.isError THEN e.message ELSE ErrUnknown

SuccessResult(sf, markdown) ==
    [id |-> sf.id, fileName |-> FileName(sf.file), markdown |-> markdown,
     error |-> UNDEF]
FailureResult(sf, e) ==
    [id |-> sf.id, fileName |-> FileName(sf.file), markdown |-> <<>>,
     error |-> ErrorMessage(e)]

\* setTranscriptions(prev => [...prev, result])
AddResultFirst(prev, result) == <<result>> \o prev
AddResult(prev, result) == Append(prev, result)

\* The finally clause: completed after an attempt that threw or did not.
CompletedAfterCountingSuccessOnly(completed, threw) ==
    IF threw THEN completed ELSE completed + 1
CompletedAfter(completed, threw) == completed + 1

\* for (const stagedFile of stagedFiles): the loop goes on to the next file
\* after the catch clause as after the try block; nothing retries a file.
NextFileIndexRetrying(idx, threw) == IF threw THEN idx ELSE idx + 1
NextFileIndex(idx, threw) == idx + 1

\* The end of one loop iteration (catch or the end of try, then finally),
\* followed without a break by the next iteration up to its first await or,
\* after the last file, by the two statements that end the run.
AfterAttempt(result, threw) ==
    /\ transcriptions' = AddResult(transcriptions, result)
    /\ IF run.idx < Len(run.files)
       THEN /\ processingStatus' =
                  [processingStatus EXCEPT
                     !.completed = CompletedAfter(@, threw),
                     !.currentFileName =
                         FileName(run.files[NextFileIndex(run.idx, threw)].file)]
            /\ run' = [run EXCEPT !.pc = "encoding",
                                  !.idx = NextFileIndex(@, threw)]
            /\ UNCHANGED <<stagedFiles, released>>
       ELSE /\ processingStatus' =
                  [isProcessing |-> FALSE, total |-> Len(run.files),
                   completed |-> Len(run.files), currentFileName |-> NoName]
            /\ stagedFiles' = <<>>
            /\ released' = EffectCleanup(released, stagedFiles)
            /\ run' = [IdleRun EXCEPT !.inFlight = run.inFlight - 1]
    /\ UNCHANGED <<error, persistedApiKey, settingsOpen, currentFileToEdit,
                   savedCrop, isBatchCropping, nextUrl, nextSalt, batch,
                   single, currentPdfFile, arg, ret>>

\* fileToGenerativePart: the FileReader ends with a data URL and the promise
\* resolves; transcribeImage is called.
EncodeResolves ==
    /\ run.pc = "encoding"
    /\ run' = [run EXCEPT !.pc = "calling",
                          !.submitted = Append(@, run.files[run.idx].id)]
    /\ UNCHANGED <<stagedFiles, transcriptions, processingStatus, error,
                   persistedApiKey, settingsOpen, currentFileToEdit, savedCrop,
                   isBatchCropping, released, nextUrl, nextSalt, batch,
                   single, currentPdfFile, arg, ret>>

\* fileToGenerativePart: readAsDataURL throws (a TypeError) inside the promise
\* executor, the promise rejects and the catch clause runs.
EncodeThrows ==
    /\ run.pc = "encoding"
    /\ AfterAttempt(FailureResult(run.files[run.idx], TypeError), TRUE)

\* fileToGenerativePart: the read fails, onloadend finds reader.result null
\* and resolves nothing; the promise has no reject path and stays pending.
EncodeReadFails ==
    /\ run.pc = "encoding"
    /\ run' = [run EXCEPT !.pc = "encodePending"]
    /\ UNCHANGED <<stagedFiles, transcriptions, processingStatus, error,
                   persistedApiKey, settingsOpen, currentFileToEdit, savedCrop,
                   isBatchCropping, released, nextUrl, nextSalt, batch,
                   single, currentPdfFile, arg, ret>>

\* transcribeImage resolves with the streamed text, which is cleaned.
RemoteResolves(result) ==
    /\ run.pc = "calling"
    /\ AfterAttempt(SuccessResult(run.files[run.idx], CleanMarkdown(result)), FALSE)

\* transcribeImage rejects.
RemoteThrows(e) ==
    /\ run.pc = "calling"
    /\ AfterAttempt(FailureResult(run.files[run.idx], e), TRUE)

RunStep ==
    \/ EncodeResolves
    \/ EncodeThrows
    \/ EncodeReadFails
    \/ \E result \in Responses : RemoteResolves(result)
    \/ \E e \in Thrown : RemoteThrows(e)


\* ------------------------------------------------------ batch crop replay
\* applyCropToFile(file, crop, rotation): how its promise can end.  With crop
\* undefined the onload handler throws at crop.x before it resolves or
\* rejects anything, so the promise stays pending unless the image fails to
\* load or no canvas context is had (rejects).
ApplyCropOutcomes(crop) ==
    IF crop = UNDEF THEN {"pending", "rejects"} ELSE {"resolves", "rejects"}

\* ------------------------------------------------- saved crop on one file
ErrCropOne == "Falha ao aplicar o recorte em"

\* handleApplySavedCropToOne from the click to await applyCropToFile.  The
\* button is rendered on the rows that are not the source of the saved crop.
handleApplySavedCropToOne(fileId) ==
    /\ savedCrop # NoCrop
    /\ fileId # savedCrop.sourceId
    /\ \E i \in DOMAIN stagedFiles :
          /\ stagedFiles[i].id = fileId
          /\ single' = single \cup
                {[fileId |-> fileId, file |-> stagedFiles[i].file,
                  crop |-> savedCrop.crop, rotation |-> savedCrop.rotation]}
    /\ UNCHANGED <<stagedFiles, transcriptions, processingStatus, error,
                   persistedApiKey, settingsOpen, currentFileToEdit, savedCrop,
                   isBatchCropping, released, nextUrl, nextSalt, run, batch,
                   currentPdfFile, arg, ret>>

\* What the handler does to the saved crop (it has no setSavedCrop call).
TemplateAfterCropOneCleared(template) == NoCrop
TemplateAfterCropOne(template) == template

\* The promise of one call ends (or is found never to end): the entry is
\* replaced by a functional update, or the error is set.
CropOneSettles(call, outcome) ==
    /\ call \in single
    /\ outcome \in ApplyCropOutcomes(call.crop)
    /\ single' = single \ {call}
    /\ savedCrop' = TemplateAfterCropOne(savedCrop)
    /\ IF outcome = "resolves"
       THEN /\ UNCHANGED error
            /\ IF \E i \in DOMAIN stagedFiles : stagedFiles[i].id = call.fileId
               THEN /\ nextUrl <= MaxUrls
                    /\ stagedFiles' = [i \in DOMAIN stagedFiles |->
                          IF stagedFiles[i].id = call.fileId
                          THEN [stagedFiles[i] EXCEPT
                                   !.file = CroppedFile(call.file),
                                   !.previewUrl = nextUrl]
                          ELSE stagedFiles[i]]
                    /\ released' = EffectCleanup(
                          RevokeSeq(CreateUrls(released, nextUrl, 1),
                                    PreviewUrls(SeqFilter(
                                        LAMBDA sf : sf.id = call.fileId, stagedFiles))),
                          stagedFiles)
                    /\ nextUrl' = nextUrl + 1
               ELSE /\ stagedFiles' = stagedFiles
                    /\ released' = EffectCleanup(released, stagedFiles)
                    /\ nextUrl' = nextUrl
       ELSE /\ error' = IF outcome = "rejects" THEN ErrCropOne ELSE error
            /\ UNCHANGED <<stagedFiles, released, nextUrl>>
    /\ UNCHANGED <<transcriptions, processingStatus, persistedApiKey,
                   settingsOpen, currentFileToEdit, isBatchCropping, nextSalt,
                   run, batch, currentPdfFile, arg, ret>>

SingleStep ==
    \E call \in single : \E o \in {"pending", "rejects", "resolves"} :
        CropOneSettles(call, o)

\* The entries of the snapshot applyCropToFile is called for.
BatchTargetsAll(files, template) == DOMAIN files
BatchTargets(files, template) ==
    {i \in DOMAIN files : files[i].id # template.sourceId}

\* handleApplyCropToAll from the click to await Promise.all(cropPromises).
handleApplyCropToAll ==
    /\ savedCrop # NoCrop
    /\ Len(stagedFiles) > 1
    /\ ~isBatchCropping
    /\ isBatchCropping' = TRUE
    /\ batch' = [pc |-> "awaiting", files |-> stagedFiles, crop |-> savedCrop,
                 tasks |-> [i \in BatchTargets(stagedFiles, savedCrop) |-> "running"],
                 updates |-> <<>>]
    /\ UNCHANGED <<stagedFiles, transcriptions, processingStatus, error,
                   persistedApiKey, settingsOpen, currentFileToEdit, savedCrop,
                   released, nextUrl, nextSalt, run,
                   single, currentPdfFile, arg, ret>>

HasUpdate(updates, id) == \E j \in DOMAIN updates : updates[j].id = id
UpdateFor(updates, id) ==
    updates[CHOOSE j \in DOMAIN updates : updates[j].id = id]

\* The state update after Promise.all: the entries with an update get its
\* file and preview URL.
ApplyUpdates(prev, updates) ==
    [i \in DOMAIN prev |->
        IF HasUpdate(updates, prev[i].id)
        THEN [prev[i] EXCEPT !.file = UpdateFor(updates, prev[i].id).file,
                             !.previewUrl = UpdateFor(updates, prev[i].id).previewUrl]
        ELSE prev[i]]

ReplacedUrls(prev, updates) ==
    PreviewUrls(SeqFilter(LAMBDA sf : HasUpdate(updates, sf.id), prev))

\* After Promise.all has settled nothing reads the updates map again.  A
\* promise still running then matters only if it can resolve (it then creates
\* one more object URL); the others are dropped with the handler.
StillRunning(tasks) == {j \in DOMAIN tasks : tasks[j] = "running"}
Settled(tasks) ==
    IF StillRunning(tasks) = {} \/ "resolves" \notin ApplyCropOutcomes(batch.crop.crop)
    THEN IdleBatch
    ELSE [batch EXCEPT !.pc = "settled",
                       !.tasks = [j \in StillRunning(tasks) |-> "running"],
                       !.updates = <<>>]

\* The catch clause of handleApplyCropToAll sets the error message and has no
\* setStagedFiles call: the queue keeps every entry, the failed target too.
QueueAfterFailedBatchWithoutTarget(prev, failedId) ==
    SeqFilter(LAMBDA sf : sf.id # failedId, prev)
QueueAfterFailedBatch(prev, failedId) == prev

\* The promise of target i ends (or is found never to end).
CropSettles(i, outcome) ==
    /\ batch.pc # "idle"
    /\ i \in DOMAIN batch.tasks
    /\ batch.tasks[i] = "running"
    /\ outcome \in ApplyCropOutcomes(batch.crop.crop)
    /\ LET tasks == [batch.tasks EXCEPT ![i] = outcome]
           updates == IF outcome = "resolves"
                      THEN Append(batch.updates,
                                  [id |-> batch.files[i].id,
                                   file |-> CroppedFile(batch.files[i].file),
                                   previewUrl |-> nextUrl])
                      ELSE batch.updates
           rel == IF outcome = "resolves" THEN CreateUrls(released, nextUrl, 1)
                  ELSE released
           allDone == \A j \in DOMAIN tasks : tasks[j] = "resolves"
       IN /\ outcome = "resolves" => nextUrl <= MaxUrls
          /\ nextUrl' = IF outcome = "resolves" THEN nextUrl + 1 ELSE nextUrl
          /\ IF batch.pc = "awaiting" /\ outcome = "rejects"
             THEN \* Promise.all rejects: catch, then finally
                  /\ error' = ErrBatchCrop
                  /\ isBatchCropping' = FALSE
                  /\ batch' = Settled(tasks)
                  /\ released' = rel
                  /\ stagedFiles' = QueueAfterFailedBatch(stagedFiles, batch.files[i].id)
                  /\ UNCHANGED savedCrop
             ELSE IF batch.pc = "awaiting" /\ allDone
             THEN \* Promise.all resolves: the updates are applied
                  /\ stagedFiles' = ApplyUpdates(stagedFiles, updates)
                  /\ released' = EffectCleanup(
                        RevokeSeq(rel, ReplacedUrls(stagedFiles, updates)),
                        stagedFiles)
                  /\ savedCrop' = NoCrop
                  /\ isBatchCropping' = FALSE
                  /\ batch' = Settled(tasks)
                  /\ UNCHANGED error
             ELSE /\ batch' = IF batch.pc = "settled" THEN Settled(tasks)
                               ELSE [batch EXCEPT !.tasks = tasks,
                                                  !.updates = updates]
                  /\ released' = rel
                  /\ UNCHANGED <<stagedFiles, savedCrop, isBatchCropping, error>>
    /\ UNCHANGED <<transcriptions, processingStatus, persistedApiKey,
                   settingsOpen, currentFileToEdit, nextSalt, run,
                   single, currentPdfFile, arg, ret>>

BatchStep ==
    \E i \in 1 .. MaxFiles : \E o \in {"pending", "rejects", "resolves"} :
        CropSettles(i, o)

\* ------------------------------------------------------------- next state
\* The editor modal is a fixed overlay over the whole page (inset-0, z-50):
\* while it is rendered the controls under it take no click.
EditorOpen == currentFileToEdit # NoFile
isPdfModalOpen == currentPdfFile # NoFile

\* No modal is over the page.
PageIdle == ~EditorOpen /\ ~isPdfModalOpen

PageStep ==
    \/ PageIdle /\ \E stem \in Names : \E k \in 0 .. MaxFiles : \E pdf \in BOOLEAN :
          handleFileChange(stem, k, pdf)
    \/ PageIdle /\ \E stem \in Names : \E o \in {"image", "none"} :
          handlePasteFromClipboard(stem, o)
    \/ PageIdle /\ \E i \in DOMAIN stagedFiles : handleRemoveFile(stagedFiles[i].id)
    \/ PageIdle /\ \E i \in DOMAIN stagedFiles : handleOpenEditor(stagedFiles[i].id)
    \/ PageIdle /\ \E i \in DOMAIN stagedFiles :
          handleApplySavedCropToOne(stagedFiles[i].id)
    \/ PageIdle /\ ClearSavedCrop
    \/ PageIdle /\ handleTranscribe
    \/ PageIdle /\ handleApplyCropToAll

ModalStep ==
    \/ handleCloseEditor
    \/ \E c \in Crops : \E r \in Rotations : \E ok \in BOOLEAN : EditorConfirm(c, r, ok)

PdfModalStep ==
    \/ handleClosePdfModal
    \/ \E n \in 1 .. MaxFiles : handlePdfPagesSelected(n)

UserStep == PageStep \/ ModalStep \/ PdfModalStep

Next == UserStep \/ RunStep \/ BatchStep \/ SingleStep

Spec == Init /\ [][Next]_vars

\* The event loop runs every continuation whose promise has settled.
FairSpec == Spec /\ WF_vars(RunStep) /\ WF_vars(BatchStep) /\ WF_vars(SingleStep)


\* --------------------------------------------- the replay over three files
\* The state after three images were staged by one file selection and an edit
\* of the first was confirmed in the editor: the first entry holds the edited
\* file under a fresh object URL and is the source of the saved crop.
ReplayQueue ==
    [NewStaged(<<"a">>, 3, 1, 1) EXCEPT
        ![1] = [@ EXCEPT !.file = EditedFile(@), !.previewUrl = 4]]

ReplayInit ==
    /\ stagedFiles = ReplayQueue
    /\ transcriptions = <<>>
    /\ processingStatus = [isProcessing |-> FALSE, total |-> 0, completed |-> 0,
                           currentFileName |-> NoName]
    /\ error = NULL
    /\ persistedApiKey \in ApiKeys
    /\ settingsOpen = FALSE
    /\ currentFileToEdit = NoFile
    /\ savedCrop = [crop |-> ConfirmArgs(ReplayQueue[1].file, "c90", 90).crop,
                    rotation |-> ConfirmArgs(ReplayQueue[1].file, "c90", 90).rotation,
                    sourceId |-> ReplayQueue[1].id]
    /\ isBatchCropping = FALSE
    /\ released = EffectCleanup(RevokeSeq(CreateUrls([u \in {} |-> 0], 1, 4), <<1>>),
                                NewStaged(<<"a">>, 3, 1, 1))
    /\ nextUrl = 5
    /\ nextSalt = 4
    /\ run = IdleRun
    /\ batch = IdleBatch
    /\ single = {}
    /\ currentPdfFile = NoFile
    /\ arg = NoText
    /\ ret = NotApplied

\* The controls that act on the queue and the saved crop, and the replay's
\* continuations.
ReplayNext ==
    \/ \E i \in DOMAIN stagedFiles : handleRemoveFile(stagedFiles[i].id)
    \/ \E o \in {"none"} : \E stem \in Names : handlePasteFromClipboard(stem, o)
    \/ ClearSavedCrop
    \/ handleApplyCropToAll
    \/ \E i \in 1 .. 3 : \E o \in {"pending", "rejects"} : CropSettles(i, o)

ReplaySpec == ReplayInit /\ [][ReplayNext]_vars

\* ----------------------------------------------------------------- export
\* line.match(/^[| -]+$/)
IsSeparatorLineNever(line) == FALSE
IsSeparatorLine(line) ==
    line # <<>> /\ \A i \in DOMAIN line : line[i] \in {"|", " ", "-"}

\* Array.prototype.slice(1, -1)
SliceInner(a) == SubSeq(a, 2, Len(a) - 1)

parseMarkdownTable(markdown) ==
    LET lines == Split(Trim(markdown), NL)
        rows == SeqFilter(LAMBDA line : Includes(line, "|") /\ ~IsSeparatorLine(line),
                          lines)
    IN [i \in DOMAIN rows |-> SeqMap(Trim, SliceInner(Split(rows[i], "|")))]

\* Array.prototype.join(sep) on a list of texts
RECURSIVE Join(_, _)
Join(texts, sep) ==
    IF texts = <<>> THEN <<>>
    ELSE IF Len(texts) = 1 THEN texts[1]
    ELSE texts[1] \o sep \o Join(Tail(texts), sep)

\* Array.prototype.flatMap: the lists f gives for the items of s, in one list
RECURSIVE FlatMap(_, _)
FlatMap(F(_), s) ==
    IF s = <<>> THEN <<>> ELSE F(Head(s)) \o FlatMap(F, Tail(s))

\* `"${cell.replace(/"/g, '""')}"`
CsvCell(cell) ==
    <<"\"">> \o FlatMap(LAMBDA c : IF c = "\"" THEN <<c, c>> ELSE <<c>>, cell) \o <<"\"">>

\* t.fileName.replace(/[\\\/\*\?:"<>|]/g, '').substring(0, 31)
SheetName(fileName) ==
    LET kept == SeqFilter(LAMBDA c : c \notin {"\\", "/", "*", "?", ":", "\"", "<", ">", "|"},
                          fileName)
    IN SubSeq(kept, 1, IF Len(kept) < 31 THEN Len(kept) ELSE 31)

\* `"Transcrição para: ${t.fileName}"`: the title row of a result in the .csv
\* file; the file name is put between the quotes as it is.
CsvTitle(fileName) == <<"\"", "Transcrição para: ">> \o fileName \o <<"\"">>

\* The .csv rows of one result: csvRows.push(title), one push per table row,
\* csvRows.push('').
CsvRows(t) ==
    <<CsvTitle(t.fileName)>>
    \o [r \in DOMAIN parseMarkdownTable(t.markdown) |->
           Join(SeqMap(CsvCell, parseMarkdownTable(t.markdown)[r]), <<",">>)]
    \o << <<>> >>

\* XLSX.utils.book_new(): a workbook without sheets. threw records that a
\* library call raised an exception while the workbook was being filled.
book_new == [threw |-> FALSE, sheets |-> <<>>]

\* The characters the workbook library refuses in a sheet name.
BadSheetChars == {":", "]", "[", "*", "?", "/", "\\"}

\* XLSX.utils.book_append_sheet(wb, ws, sheetName), called without the roll
\* argument: an empty name becomes the first free "SheetN"; a name longer
\* than 31 characters, one holding a refused character, or one a sheet of
\* the workbook already has, raises an exception.
book_append_sheet(wb, ws, sheetName) ==
    LET taken == {wb.sheets[i].name : i \in DOMAIN wb.sheets}
        name  == IF sheetName # <<>> THEN sheetName
                 ELSE <<"Sheet", CHOOSE n \in 1..(Len(wb.sheets) + 1) :
                                     /\ <<"Sheet", n>> \notin taken
                                     /\ \A m \in 1..(n - 1) : <<"Sheet", m>> \in taken>>
    IN IF \/ Len(name) > 31
          \/ \E i \in DOMAIN name : name[i] \in BadSheetChars
          \/ name \in taken
       THEN [wb EXCEPT !.threw = TRUE]
       ELSE [wb EXCEPT !.sheets = Append(@, [name |-> name, data |-> ws])]

\* validTranscriptions.forEach(t => { ... book_append_sheet ... }): the
\* exception of a library call leaves the forEach and the handler.
RECURSIVE Workbook(_, _)
Workbook(wb, results) ==
    IF results = <<>> \/ wb.threw THEN wb
    ELSE LET tableData == parseMarkdownTable(Head(results).markdown)
         IN Workbook(IF tableData # <<>>
                     THEN book_append_sheet(wb, tableData,
                                            SheetName(Head(results).fileName))
                     ELSE wb,
                     Tail(results))

ExportFormat == {"md", "csv", "xlsx"}

\* handleExport: the payload handed to downloadBlob or XLSX.writeFile for a
\* result list: the text of the .md file, the text of the .csv file, or the
\* workbook; written tells whether XLSX.writeFile was reached.
ExportPayload(format, results) ==
    LET valid == SeqFilter(LAMBDA t : ~Truthy(t.error), results)
    IN IF format = "md"
       THEN Join([i \in DOMAIN valid |->
                     <<"## Transcrição para: ">> \o valid[i].fileName
                        \o <<NL, NL>> \o valid[i].markdown],
                 <<NL, NL, "-", "-", "-", NL, NL>>)
       ELSE IF format = "csv"
       THEN Join(FlatMap(CsvRows, valid), <<NL>>)
       ELSE LET wb == Workbook(book_new, valid)
            IN [written |-> ~wb.threw,
                sheets  |-> IF wb.threw THEN <<>> ELSE wb.sheets]

\* handleExport: const validTranscriptions = transcriptions.filter(t => !t.error)
validTranscriptions == SeqFilter(LAMBDA t : ~Truthy(t.error), transcriptions)

\* --------------------------------------------------- the text functions
MaxLen == 6        \* characters of a text the table parser is applied to
MaxBody == 3       \* characters of the body of a response

TableChars == {"|", "-", " ", NL, "x"}
TableExample ==
    <<"|", " ", "Data", " ", "|", " ", "Entrada", " ", "|", NL,
      "|", "-", "-", "-", "|", "-", "-", "-", "|", NL,
      "|", " ", "10/07", " ", "|", " ", "08:00", " ", "|", NL,
      "|", " ", "11/07", " ", "|", " ", "08:00", " ", "|">>
Tables ==
    UNION {[1 .. n -> TableChars] : n \in 0 .. MaxLen} \cup {TableExample}

ParseInit ==
    /\ AppInit
    /\ arg \in Tables
    /\ ret = NotApplied

ApplyParse ==
    /\ ~ret.applied
    /\ ret' = [applied |-> TRUE, value |-> parseMarkdownTable(arg)]
    /\ UNCHANGED <<appVars, arg>>

ParseSpec == ParseInit /\ [][ApplyParse]_vars

\* A response: white space, an opening fence, a body, a closing fence, white
\* space, each of the four around the body there or not.
Spaces == {<<>>, <<" ">>, <<NL>>}
BodyChars == {"x", " ", NL}
ResponseShapes ==
    [ws1 : Spaces, open : {<<>>, <<FENCE>>, <<FENCE, MD>>},
     body : UNION {[1 .. n -> BodyChars] : n \in 0 .. MaxBody},
     close : {<<>>, <<FENCE>>}, ws2 : Spaces]
Compose(shape) ==
    shape.ws1 \o shape.open \o shape.body \o shape.close \o shape.ws2

CleanInit ==
    /\ AppInit
    /\ arg \in {Compose(shape) : shape \in ResponseShapes}
    /\ ret = NotApplied

ApplyClean ==
    /\ ~ret.applied
    /\ ret' = [applied |-> TRUE, value |-> CleanMarkdown(arg)]
    /\ UNCHANGED <<appVars, arg>>

CleanSpec == CleanInit /\ [][ApplyClean]_vars


\* ============================================================== the claims
isProcessing == processingStatus.isProcessing
completed == processingStatus.completed
total == processingStatus.total
RunEnds == isProcessing /\ ~isProcessing'

\* ids is the part lo..hi of all, for some lo
SegmentEndingAt(ids, all, hi) ==
    \E lo \in 1 .. hi + 1 : ids = SubSeq(all, lo, hi)

\* C1: the results of a run are appended in the order of the queue the run
\* started with: while the run is at file idx the result list is a run of
\* consecutive queue ids ending at idx - 1, and when the run ends it is one
\* ending at the last file, whatever succeeded or failed.
C1_ResultsInQueueOrder ==
    /\ [](run.pc # "idle" =>
            SegmentEndingAt(Ids(transcriptions), Ids(run.files), run.idx - 1))
    /\ [][RunEnds =>
            SegmentEndingAt(Ids(transcriptions'), Ids(run.files), Len(run.files))]_vars

C1_Witness ==
    /\ ~isProcessing
    /\ Len(transcriptions) = 2
    /\ transcriptions[1].id.salt < transcriptions[2].id.salt
    /\ transcriptions[1].error # UNDEF
    /\ transcriptions[2].error = UNDEF

\* C2: when the encoding of a file has failed and later files remain in the
\* run's queue, the run is able to go on to them.
C2_FailureNeverAbortsRun ==
    (run.pc = "encodePending" /\ run.idx < Len(run.files)) => ENABLED RunStep

\* C3: every result recorded by the catch clause (it carries an error field)
\* counts as a Failure: it is not among the results the export takes as valid.
C3_ThrownIsRecordedAsFailure ==
    \A i \in DOMAIN transcriptions :
        transcriptions[i].error # UNDEF =>
            /\ Truthy(transcriptions[i].error)
            /\ transcriptions[i] \notin Range(validTranscriptions)

\* C4: completed is 0 when a run starts, goes up by exactly 1 with each
\* attempt (a result is appended), never otherwise changes during the run, and
\* equals total exactly when the run is not in progress.
C4_ProgressCounter ==
    /\ [](isProcessing <=> completed < total)
    /\ [](run.pc # "idle" => completed = run.idx - 1 /\ total = Len(run.files))
    /\ [][~isProcessing /\ isProcessing' => completed' = 0]_vars
    /\ [][isProcessing /\ completed' # completed => completed' = completed + 1]_vars
    /\ [][Len(transcriptions') = Len(transcriptions) + 1 =>
            completed' = completed + 1]_vars
    /\ [][RunEnds => completed' = total' /\ total' = Len(run.files)]_vars

C4_Witness ==
    /\ isProcessing
    /\ total = 2
    /\ completed = 1
    /\ Len(transcriptions) = 1
    /\ transcriptions[1].error # UNDEF

\* C5: when a run ends the staged queue is empty and every preview handle of
\* an entry of the run's queue has been released exactly once.
C5_DrainReleasesOnce ==
    [][RunEnds =>
        /\ stagedFiles' = <<>>
        /\ \A i \in DOMAIN run.files : released'[run.files[i].previewUrl] = 1]_vars

\* C6: when a run ends the result list holds exactly one result for each file
\* of the queue the run started with, whatever the user did meanwhile.
C6_OneResultPerFile ==
    [][RunEnds => Ids(transcriptions') = Ids(run.files)]_vars

\* C7: every run that is started eventually finishes (running returns to
\* false).
C7_RunTerminates == isProcessing ~> ~isProcessing

\* C8: from a state with an empty queue or an empty API key no step starts a
\* run, and the start handler changes neither the queue, the result list, the
\* processing status nor the run (no remote call): it only sets the error.
C8_RejectedStart ==
    [][(Len(stagedFiles) = 0 \/ persistedApiKey = "") =>
        /\ run.pc = "idle" => run'.pc = "idle"
        /\ handleTranscribe =>
              /\ UNCHANGED <<stagedFiles, transcriptions, processingStatus, run>>
              /\ error' \in {ErrNoFiles, ErrNoApiKey}]_vars

C8_Witness ==
    /\ error = ErrNoApiKey
    /\ settingsOpen
    /\ Len(stagedFiles) > 0
    /\ persistedApiKey = ""
    /\ run.pc = "idle"
    /\ ~isProcessing

\* C9: at most one run is in flight; running is true exactly while one is;
\* a run starts only when none is in progress and the one before has
\* processed all its files.
C9_OneRunAtATime ==
    /\ [](run.inFlight <= 1 /\ (isProcessing <=> run.inFlight = 1))
    /\ [][run'.inFlight > run.inFlight =>
            ~isProcessing /\ run.pc = "idle" /\ completed = total]_vars

C9_Witness ==
    /\ isProcessing
    /\ run.inFlight = 1
    /\ Len(stagedFiles) > 0
    /\ ~isBatchCropping
    /\ persistedApiKey # ""

\* C10: a batch crop replay over a queue of M entries that holds the
\* template's source crops exactly the M - 1 others, never the source, and no
\* step of the replay changes the source entry of the staged queue.
SourceIn(files, template) ==
    {i \in DOMAIN files : files[i].id = template.sourceId}

C10_BatchSkipsSource ==
    /\ [](batch.pc = "awaiting" /\ SourceIn(batch.files, batch.crop) # {} =>
            /\ Cardinality(DOMAIN batch.tasks) = Len(batch.files) - 1
            /\ DOMAIN batch.tasks \cap SourceIn(batch.files, batch.crop) = {})
    /\ [][batch.pc = "awaiting" /\ batch' # batch =>
            \A i \in SourceIn(stagedFiles, batch.crop) :
                i \in DOMAIN stagedFiles' /\ stagedFiles'[i] = stagedFiles[i]]_vars

C10_Witness ==
    /\ batch.pc = "awaiting"
    /\ Len(batch.files) = 2
    /\ SourceIn(batch.files, batch.crop) # {}
    /\ Cardinality(DOMAIN batch.tasks) = 1
    /\ \E i \in DOMAIN batch.tasks : batch.tasks[i] # "running"

\* C11: in a batch crop replay the aggregate error is surfaced only when no
\* other target is still unfinished: at the step that ends the replay with the
\* error, at most the target that has just failed had not completed or failed.
Unfinished(tasks) == {j \in DOMAIN tasks : tasks[j] \notin {"resolves", "rejects"}}

C11_ErrorAfterAllTargets ==
    [][(batch.pc = "awaiting" /\ isBatchCropping /\ ~isBatchCropping'
            /\ error' = ErrBatchCrop) =>
        Cardinality(Unfinished(batch.tasks)) <= 1]_vars

\* C12: when a batch crop replay ends (the batch flag goes back to false),
\* with or without a failed target, no saved crop template is left.
C12_TemplateClearedAfterBatch ==
    [][(batch.pc = "awaiting" /\ isBatchCropping /\ ~isBatchCropping') =>
        savedCrop' = NoCrop]_vars

C14_TemplateHoldsEditorSettings ==
    [][\A c \in Crops : \A r \in Rotations :
          EditorConfirm(c, r, TRUE) =>
              savedCrop' = [crop |-> c, rotation |-> r,
                            sourceId |-> currentFileToEdit.id]]_vars

C16_NoDoubleRelease ==
    \A u \in DOMAIN released : released[u] <= 1

\* C17: the result list is empty right after a run starts and right after
\* image files are staged by a file selection or a paste; while a run is in
\* progress every result in the list is of a file of that run, and with no
\* run in progress the list is only ever emptied.
C17_ResultsCleared ==
    /\ [][(~isProcessing /\ isProcessing') => transcriptions' = <<>>]_vars
    /\ [][\A stem \in Names : \A k \in 1 .. MaxFiles : \A pdf \in BOOLEAN :
            handleFileChange(stem, k, pdf) => transcriptions' = <<>>]_vars
    /\ [][\A stem \in Names :
            handlePasteFromClipboard(stem, "image") => transcriptions' = <<>>]_vars
    /\ [](run.pc # "idle" =>
            Range(Ids(transcriptions)) \subseteq Range(Ids(run.files)))
    /\ [][(run.pc = "idle" /\ run'.pc = "idle") =>
            transcriptions' \in {transcriptions, <<>>}]_vars

\* A second run has just started on a PDF page staged after the first run
\* drained the queue (the first file's handle was released by the drain).
C17_Witness ==
    /\ isProcessing
    /\ transcriptions = <<>>
    /\ completed = 0
    /\ Len(run.files) = 1
    /\ run.files[1].id.salt = 2
    /\ run.files[1].file.stem = <<"a", "page-1">>
    /\ 1 \in DOMAIN released
    /\ released[1] = 1

\* C18: for each of the three formats the exported payload is what the export
\* of the Success results alone (those recorded without an error field) gives:
\* a Failure result adds nothing to it.
SuccessOnly(results) == SeqFilter(LAMBDA t : t.error = UNDEF, results)

C18_ExportOnlySuccess ==
    \A format \in ExportFormat :
        ExportPayload(format, transcriptions)
            = ExportPayload(format, SuccessOnly(transcriptions))

\* C19: the table parser returns, in input order, one row per line that holds
\* a pipe and does not consist of pipes, dashes and spaces only; the cells of
\* a row are the trimmed texts between consecutive pipes of the line.
RECURSIVE SortedSeq(_)
SortedSeq(S) ==
    IF S = {} THEN <<>>
    ELSE LET m == CHOOSE x \in S : \A y \in S : x <= y
         IN <<m>> \o SortedSeq(S \ {m})

Positions(t, c) == SortedSeq({i \in DOMAIN t : t[i] = c})
Between(t, cuts) ==
    [k \in 1 .. Len(cuts) - 1 |-> SubSeq(t, cuts[k] + 1, cuts[k + 1] - 1)]
LinesOf(t) == Between(t, <<0>> \o Positions(t, NL) \o <<Len(t) + 1>>)
CellsOf(line) == SeqMap(Trim, Between(line, Positions(line, "|")))
IsRowLine(line) ==
    /\ \E i \in DOMAIN line : line[i] = "|"
    /\ \E i \in DOMAIN line : line[i] \notin {"|", "-", " "}
ExpectedRows(t) == SeqMap(CellsOf, SeqFilter(IsRowLine, LinesOf(t)))

C19_ParserRows == ret.applied => ret.value = ExpectedRows(arg)

C19_Witness ==
    /\ ret.applied
    /\ arg = TableExample
    /\ ret.value = << << <<"Data">>, <<"Entrada">> >>,
                      << <<"10/07">>, <<"08:00">> >>,
                      << <<"11/07">>, <<"08:00">> >> >>

\* C20: for a response made of white space, an opening fence, a body, a
\* closing fence and white space (each but the body optional), the recorded
\* markdown is the trimmed body.
C20_FencesStripped ==
    ret.applied =>
        \A shape \in ResponseShapes :
            Compose(shape) = arg => ret.value = Trim(shape.body)

\* A cell between double quotes, each double quote inside it written twice.
RECURSIVE Doubled(_)
Doubled(cell) ==
    IF cell = <<>> THEN <<>>
    ELSE (IF Head(cell) = "\"" THEN <<"\"", "\"">> ELSE <<Head(cell)>>)
         \o Doubled(Tail(cell))

QuotedRow(cells) ==
    Join([i \in DOMAIN cells |-> <<"\"">> \o Doubled(cells[i]) \o <<"\"">>], <<",">>)

\* The rows the CSV file is to have for a list of Success results.
RECURSIVE CsvSections(_)
CsvSections(results) ==
    IF results = <<>> THEN <<>>
    ELSE << <<"\"", "Transcrição para: ">> \o Head(results).fileName \o <<"\"">> >>
         \o SeqMap(QuotedRow, ExpectedRows(Head(results).markdown))
         \o << <<>> >>
         \o CsvSections(Tail(results))

\* C21: the CSV payload is, for each Success result in result order, the
\* quoted title row with the file name, one row per parsed table row with
\* each cell between double quotes and its double quotes doubled, and one
\* blank row; the rows of all results form one payload, and no other result
\* contributes a row.
C21_CsvLayout ==
    ExportPayload("csv", transcriptions)
        = Join(CsvSections(SuccessOnly(transcriptions)), <<NL>>)

\* The Success results whose text has at least one table row.
WithRows(results) ==
    SeqFilter(LAMBDA t : ExpectedRows(t.markdown) # <<>>, SuccessOnly(results))

\* C22: the workbook of the spreadsheet export has exactly one sheet for each
\* Success result whose parsed table has at least one row, in result order,
\* and none for any other result; each sheet is named by the result's file
\* name without the characters refused in sheet names, cut to 31 characters.
C22_OneSheetPerTable ==
    LET sheets == ExportPayload("xlsx", transcriptions).sheets
        tables == WithRows(transcriptions)
    IN /\ Len(sheets) = Len(tables)
       /\ \A i \in DOMAIN sheets :
              /\ sheets[i].name = SheetName(tables[i].fileName)
              /\ sheets[i].data = ExpectedRows(tables[i].markdown)
              /\ Len(sheets[i].name) <= 31
              /\ \A k \in DOMAIN sheets[i].name : sheets[i].name[k] \notin BadSheetChars

\* C23: within one run the remote service is called at most once for each
\* file (the ids of the calls made are distinct and are ids of the files of
\* the run up to the current one), and at most one call is in flight: the
\* calls started are never more than the files finished plus the one call
\* being awaited, which is the call for the current file.
C23_OneCallPerFile ==
    LET calls == run.submitted
        awaited == IF run.pc = "calling" THEN 1 ELSE 0
    IN /\ \A i, j \in DOMAIN calls : i # j => calls[i] # calls[j]
       /\ \A i \in DOMAIN calls :
              \E k \in 1..run.idx : calls[i] = run.files[k].id
       /\ Len(calls) <= completed + awaited
       /\ run.pc = "calling" => calls[Len(calls)] = run.files[run.idx].id

\* The second file's call is in flight after the first file's call failed.
C23_Witness ==
    /\ run.pc = "calling"
    /\ Len(run.submitted) = 2
    /\ Len(transcriptions) = 1
    /\ transcriptions[1].error # UNDEF

CatchStep ==
    \/ EncodeThrows
    \/ \E e \in Thrown : RemoteThrows(e)
    \/ \E call \in single : CropOneSettles(call, "rejects")
    \/ \E i \in 1 .. MaxFiles : batch.pc = "awaiting" /\ CropSettles(i, "rejects")
    \/ \E c \in Crops : \E r \in Rotations : EditorConfirm(c, r, FALSE)

\* C25: every caught error records a result or sets the error message the
\* page shows: no step of a catch clause is possible that leaves the message
\* unset and the result list as long as it was.
C25_CaughtErrorsAreShown ==
    ~ENABLED (CatchStep /\ error' = NULL /\ Len(transcriptions') = Len(transcriptions))

\* C26: the preview URL of every entry of the staged queue is a live object
\* URL: it has been created and it has not been revoked.
C26_QueuedPreviewIsLive ==
    \A i \in DOMAIN stagedFiles : released[stagedFiles[i].previewUrl] = 0

\* C27: an entry leaves the staged queue only by the user's removal of it or
\* at the end of a run that has attempted it and recorded its result; an
\* entry staged while the run was in flight is not dropped at the drain.
C27_LeavesOnlyWhenDone ==
    [][\A i \in DOMAIN stagedFiles :
          stagedFiles[i].id \notin Range(Ids(stagedFiles')) =>
              \/ handleRemoveFile(stagedFiles[i].id)
              \/ /\ RunEnds
                 /\ \E k \in DOMAIN run.files : run.files[k].id = stagedFiles[i].id]_vars

\* C28: a batch crop replay and a transcription run are never in progress
\* at the same time.
C28_BatchAndRunExclusive ==
    ~(isProcessing /\ isBatchCropping)

\* C29: every batch crop replay that has been started finishes: the flag
\* isBatchCropping, once true, becomes false again, so the transcribe button
\* is not left disabled by it for ever.
C29_BatchTerminates ==
    isBatchCropping ~> ~isBatchCropping

\* C30: whenever a crop template exists, its sourceId is the id of an entry
\* of the staged queue.
C30_TemplateSourceIsStaged ==
    savedCrop # NoCrop => SourceIn(stagedFiles, savedCrop) # {}

====
